---- MODULE Spec2Model ----
(***************************************************************************)
(* Release dashboard (release_dashboard.py): the entity tree rooted at     *)
(* BBState with its memoised properties, the per-builder problem           *)
(* classifier, the Branch / Tier orderings, and the single-slot result     *)
(* cache of ReleaseStatusApp.main.                                         *)
(*                                                                         *)
(* Strings that the code takes apart (tags, descriptions) are sequences of *)
(* one-character strings; strings that are only compared for equality are  *)
(* TLA+ strings.                                                           *)
(***************************************************************************)
EXTENDS Integers, Sequences, FiniteSets, TLC

VARIABLES
    workers,        \* upstream: what dataGet("/workers") returns
    builderInfos,   \* upstream: what dataGet("/builders") returns
    history,        \* upstream: builderid -> builds, most recently completed first
    wallNow,        \* wall clock (seconds), datetime.now()
    phase,          \* "idle" | "rendering": position of get_release_status
    st,             \* the BBState tree of the current refresh, with every cached_property
    raised,         \* the exception the last property read raised, or "none"
    cache,          \* ReleaseStatusApp.cache: the slot
    mono,           \* time.monotonic()
    pc,             \* per request thread: position in main()
    req,            \* per request thread: the locals of main()
    last,           \* the outcome of the request that completed last
    recomputes,     \* number of get_release_status calls started so far
    upstream,       \* number of upstream dataGet calls made by main() so far
    ticks           \* number of times the monotonic clock has been advanced

dashVars == <<workers, builderInfos, history, wallNow, phase, st, raised>>
cacheVars == <<cache, mono, pc, req, last, recomputes, upstream, ticks>>
vars == <<workers, builderInfos, history, wallNow, phase, st, raised,
          cache, mono, pc, req, last, recomputes, upstream, ticks>>

(***************************************************************************)
(* Program constants                                                       *)
(***************************************************************************)
N_BUILDS == 200
FAILED_BUILD_STATUS == 2
WARNING_BUILD_STATUS == 1
SUCCESS_BUILD_STATUS == 0
CACHE_DURATION == 6 * 60
RECENT_BUILD_AGE == 6 * 3600      \* datetime.timedelta(hours=6), in seconds

\* class Severity(enum.IntEnum): enum.auto() numbers the members from 1
NO_PROBLEM == 1
no_builds_yet == 2
disconnected_unstable_builder == 3
unstable_builder_failure == 4
TRIVIAL == 5
build_warnings == 6
disconnected_stable_builder == 7
disconnected_blocking_builder == 8
CONCERNING == 9
nonblocking_failure == 10
BLOCKING == 11
release_blocking_failure == 12

(***************************************************************************)
(* Text: characters, ordering, str.title(), int()                          *)
(***************************************************************************)
LowerCase == <<"a", "b", "c", "d", "e", "f", "g", "h", "i", "j", "k", "l", "m",
               "n", "o", "p", "q", "r", "s", "t", "u", "v", "w", "x", "y", "z">>
UpperCase == <<"A", "B", "C", "D", "E", "F", "G", "H", "I", "J", "K", "L", "M",
               "N", "O", "P", "Q", "R", "S", "T", "U", "V", "W", "X", "Y", "Z">>
DigitChars == <<"0", "1", "2", "3", "4", "5", "6", "7", "8", "9">>

IndexOf(seq, c) ==
    IF \E i \in 1..Len(seq) : seq[i] = c
    THEN CHOOSE i \in 1..Len(seq) : seq[i] = c
    ELSE 0

\* The code point of a character (the ASCII characters the model uses).
Ord(c) ==
    IF IndexOf(LowerCase, c) > 0 THEN 96 + IndexOf(LowerCase, c)
    ELSE IF IndexOf(UpperCase, c) > 0 THEN 64 + IndexOf(UpperCase, c)
    ELSE IF IndexOf(DigitChars, c) > 0 THEN 47 + IndexOf(DigitChars, c)
    ELSE IF c = " " THEN 32
    ELSE IF c = "(" THEN 40
    ELSE IF c = ")" THEN 41
    ELSE IF c = "+" THEN 43
    ELSE IF c = "-" THEN 45
    ELSE 46   \* "."

\* str < str: lexicographic by code point, a proper prefix first.
StrLess(a, b) ==
    \E k \in 1..Len(b) :
        /\ k <= Len(a) + 1
        /\ SubSeq(a, 1, k - 1) = SubSeq(b, 1, k - 1)
        /\ \/ k = Len(a) + 1
           \/ Ord(a[k]) < Ord(b[k])

StartsWith(s, prefix) ==
    /\ Len(s) >= Len(prefix)
    /\ SubSeq(s, 1, Len(prefix)) = prefix

IsLetter(c) == IndexOf(LowerCase, c) > 0 \/ IndexOf(UpperCase, c) > 0

ToUpper(c) == IF IndexOf(LowerCase, c) > 0 THEN UpperCase[IndexOf(LowerCase, c)] ELSE c

ToLower(c) == IF IndexOf(UpperCase, c) > 0 THEN LowerCase[IndexOf(UpperCase, c)] ELSE c

\* str.title(): a letter that follows a non-letter is upper-cased, any other lowered.
Title(s) ==
    [i \in 1..Len(s) |->
        IF i = 1 \/ ~IsLetter(s[i - 1]) THEN ToUpper(s[i]) ELSE ToLower(s[i])]

RECURSIVE DigitsValue(_)
DigitsValue(d) ==
    IF d = <<>> THEN 0
    ELSE 10 * DigitsValue(SubSeq(d, 1, Len(d) - 1)) + (IndexOf(DigitChars, d[Len(d)]) - 1)

\* int(str): an optional sign, then one or more decimal digits; anything else is
\* ValueError (ok = FALSE).  Whitespace and "_" are outside the model's alphabet.
ParseInt(s) ==
    LET signed == Len(s) > 0 /\ s[1] \in {"+", "-"}
        digits == IF signed THEN Tail(s) ELSE s
        ok == Len(digits) > 0 /\ \A i \in 1..Len(digits) : IndexOf(DigitChars, digits[i]) > 0
        magnitude == IF ok THEN DigitsValue(digits) ELSE 0
    IN  [ok |-> ok, val |-> IF signed /\ s[1] = "-" THEN 0 - magnitude ELSE magnitude]

\* The literals of the code.
BranchPrefix == <<"3", ".">>
TierPrefix == <<"t", "i", "e", "r", "-">>
NoBranchTag == <<"n", "o", "-", "b", "r", "a", "n", "c", "h">>
NoTierTag == <<"n", "o", "-", "t", "i", "e", "r">>
StableTag == <<"s", "t", "a", "b", "l", "e">>

\* tuple < tuple for the pairs Branch.sort_key returns.
PairLess(a, b) == a[1] < b[1] \/ (a[1] = b[1] /\ a[2] < b[2])

(***************************************************************************)
(* Branch and Tier: sort keys and the comparisons of _BranchTierBase        *)
(***************************************************************************)
\* Branch.sort_key
BranchSortKey(name) ==
    IF StartsWith(name, BranchPrefix)
    THEN LET minor == ParseInt(SubSeq(name, 3, Len(name)))
         IN  IF minor.ok THEN <<1, minor.val>> ELSE <<2, 99>>
    ELSE <<0, 0>>

\* Tier.value
TierValue(name) ==
    IF StartsWith(name, TierPrefix)
    THEN LET n == ParseInt(SubSeq(name, 6, Len(name)))
         IN  IF n.ok THEN n.val ELSE 99
    ELSE 99

\* Tier.sort_key
TierSortKey(name) == TierValue(name)

\* _BranchTierBase.__eq__ / __lt__ between two Branch objects, each named by its tag
BranchEq(a, b) == BranchSortKey(a) = BranchSortKey(b)

BranchLt(a, b) == PairLess(BranchSortKey(a), BranchSortKey(b))

\* _BranchTierBase.__eq__ / __lt__ between two Tier objects; total_ordering
\* derives __gt__ as "neither less nor equal"
TierEq(a, b) == TierSortKey(a) = TierSortKey(b)

TierLt(a, b) == TierSortKey(a) < TierSortKey(b)

TierGt(a, b) == ~TierLt(a, b) /\ ~TierEq(a, b)

\* Tier.is_release_blocking / Builder.is_release_blocking
TierIsReleaseBlocking(name) == TierValue(name) \in {1, 2}

\* the for/else of get_branch and get_tier: the first tag with the prefix, else the sentinel
RECURSIVE FirstTagWithPrefix(_, _, _)
FirstTagWithPrefix(tags, prefix, sentinel) ==
    IF tags = <<>> THEN sentinel
    ELSE IF StartsWith(Head(tags), prefix) THEN Head(tags)
    ELSE FirstTagWithPrefix(Tail(tags), prefix, sentinel)

BranchTagOf(tags) == FirstTagWithPrefix(tags, BranchPrefix, NoBranchTag)

TierTagOf(tags) == FirstTagWithPrefix(tags, TierPrefix, NoTierTag)

\* Builder.is_stable
IsStable(tags) == \E i \in 1..Len(tags) : tags[i] = StableTag

InSeq(seq, x) == \E i \in 1..Len(seq) : seq[i] = x

\* InsertBranchDesc without reverse=True: ascending
RECURSIVE InsertBranchAsc(_, _)
InsertBranchAsc(sorted, tag) ==
    IF sorted = <<>> THEN <<tag>>
    ELSE IF PairLess(BranchSortKey(tag), BranchSortKey(Head(sorted))) THEN <<tag>> \o sorted
    ELSE <<Head(sorted)>> \o InsertBranchAsc(Tail(sorted), tag)

\* sorted(self._branches.values(), reverse=True): a stable sort that uses only <;
\* equal branches keep their registration order.
RECURSIVE InsertBranchDesc(_, _)
InsertBranchDesc(sorted, tag) ==
    IF sorted = <<>> THEN <<tag>>
    ELSE IF BranchLt(Head(sorted), tag) THEN <<tag>> \o sorted
    ELSE <<Head(sorted)>> \o InsertBranchDesc(Tail(sorted), tag)

RECURSIVE SortBranchesDesc(_)
SortBranchesDesc(tags) ==
    IF tags = <<>> THEN <<>>
    ELSE InsertBranchDesc(SortBranchesDesc(SubSeq(tags, 1, Len(tags) - 1)), tags[Len(tags)])

(***************************************************************************)
(* Builds and workers                                                      *)
(***************************************************************************)
\* dataGet(("builders", id, "builds"), limit=N_BUILDS, order=["-complete_at"],
\*         filters=[Filter("complete", "eq", ["True"])]): the upstream list is kept
\* in -complete_at order; the filter and the limit are applied here.
DataGetBuilds(bid) ==
    LET done == SelectSeq(history[bid], LAMBDA b : b.complete)
    IN  SubSeq(done, 1, IF Len(done) < N_BUILDS THEN Len(done) ELSE N_BUILDS)

\* Builder.iter_interesting_builds, as the positions in builds (a Build object is
\* identified by its position: Build defines no __eq__).
InterestingBuilds(builds) ==
    SelectSeq([i \in 1..Len(builds) |-> i],
              LAMBDA i : builds[i].results \in
                  {SUCCESS_BUILD_STATUS, WARNING_BUILD_STATUS, FAILED_BUILD_STATUS})

RECURSIVE CountIn(_, _)
CountIn(seq, x) ==
    IF seq = <<>> THEN 0
    ELSE (IF Head(seq) = x THEN 1 ELSE 0) + CountIn(Tail(seq), x)

\* the generator of Builder.connected_workers: one entry (the worker's position)
\* for every configured_on entry of a connected worker that names the builder
RECURSIVE ConnectedWorkersFrom(_, _, _)
ConnectedWorkersFrom(ws, k, bid) ==
    IF k > Len(ws) THEN <<>>
    ELSE (IF ws[k].connected_to > 0
          THEN [j \in 1..CountIn(ws[k].configured_on, bid) |-> k]
          ELSE <<>>) \o ConnectedWorkersFrom(ws, k + 1, bid)

ConnectedWorkersGen(ws, bid) == ConnectedWorkersFrom(ws, 1, bid)

\* cached_sorted_property: sorted() compares Worker objects as soon as there are
\* two; Worker defines no __lt__, so that is a TypeError.
SortWorkersRaises(found) == Len(found) >= 2

\* the builders State.builders keeps: configured on any worker, connected or not
ActiveBuilderIds(ws) ==
    UNION {{ws[k].configured_on[j] : j \in 1..Len(ws[k].configured_on)} : k \in 1..Len(ws)}

(***************************************************************************)
(* Problems                                                                *)
(***************************************************************************)
NoBuild == 0     \* None in place of a Build

MkProblem(kind, bid, latest, breaking) ==
    [kind |-> kind, builder |-> bid, latest_build |-> latest, first_failing_build |-> breaking]

NoProblem == MkProblem("NoProblem", 0, NoBuild, NoBuild)

\* FailureScan with the for/else branch handing over first_failing_build too
RECURSIVE FailureScanElseKeepsFirst(_, _, _, _, _)
FailureScanElseKeepsFirst(bid, builds, ib, k, first) ==
    IF k > Len(ib)
    THEN <<[kind |-> "BuildFailure", builder |-> bid, latest_build |-> ib[1],
            first_failing_build |-> IF first = ib[1] THEN 0 ELSE first]>>
    ELSE IF builds[ib[k]].results = FAILED_BUILD_STATUS
    THEN FailureScanElseKeepsFirst(bid, builds, ib, k + 1, ib[k])
    ELSE IF builds[ib[k]].results = SUCCESS_BUILD_STATUS
    THEN (IF ib[1] # first
          THEN <<[kind |-> "BuildFailure", builder |-> bid, latest_build |-> ib[1],
                  first_failing_build |-> first]>>
          ELSE <<>>)
    ELSE FailureScanElseKeepsFirst(bid, builds, ib, k + 1, first)

\* the second loop of Builder.problems (lines 206-215), from position k of the
\* interesting builds, with first_failing_build so far
RECURSIVE FailureScan(_, _, _, _, _)
FailureScan(bid, builds, ib, k, first) ==
    IF k > Len(ib)
    THEN <<MkProblem("BuildFailure", bid, ib[1], NoBuild)>>       \* for ... else
    ELSE IF builds[ib[k]].results = FAILED_BUILD_STATUS
    THEN FailureScan(bid, builds, ib, k + 1, ib[k])
    ELSE IF builds[ib[k]].results = SUCCESS_BUILD_STATUS
    THEN (IF ib[1] # first
          THEN <<MkProblem("BuildFailure", bid, ib[1], first)>>
          ELSE <<>>)                                                \* break
    ELSE FailureScan(bid, builds, ib, k + 1, first)

\* Builder.problems up to the connected_workers test (lines 193-215);
\* done = TRUE is the early return after NoBuilds
BuildProblemsGen(bid, builds) ==
    LET ib == InterestingBuilds(builds)
    IN  IF ib = <<>>
        THEN [done |-> TRUE, val |-> <<MkProblem("NoBuilds", bid, NoBuild, NoBuild)>>]
        ELSE IF builds[ib[1]].results = WARNING_BUILD_STATUS
        THEN [done |-> FALSE, val |-> <<MkProblem("BuildWarning", bid, ib[1], NoBuild)>>]
        ELSE IF builds[ib[1]].results = FAILED_BUILD_STATUS
        THEN [done |-> FALSE, val |-> FailureScan(bid, builds, ib, 1, NoBuild)]
        ELSE [done |-> FALSE, val |-> <<>>]

\* DisconnectedGen with the test the wrong way round ("if self.connected_workers")
DisconnectedGenInverted(bid, connected) ==
    IF connected # <<>>
    THEN <<[kind |-> "BuilderDisconnected", builder |-> bid, latest_build |-> 0,
            first_failing_build |-> 0]>>
    ELSE <<>>

\* the rest of Builder.problems (lines 217-218)
DisconnectedGen(bid, connected) ==
    IF connected = <<>>
    THEN <<MkProblem("BuilderDisconnected", bid, NoBuild, NoBuild)>>
    ELSE <<>>

(***************************************************************************)
(* Severity and description of a problem                                   *)
(***************************************************************************)
UnstableFailedText ==
    <<"U", "n", "s", "t", "a", "b", "l", "e", " ", "b", "u", "i", "l", "d", "e", "r", " ",
      "f", "a", "i", "l", "e", "d">>
StableFailedText ==
    <<" ", "s", "t", "a", "b", "l", "e", " ", "b", "u", "i", "l", "d", "e", "r", " ",
      "f", "a", "i", "l", "e", "d">>
WarningsText == <<"W", "a", "r", "n", "i", "n", "g", "s">>
NoBuildsText ==
    <<"B", "u", "i", "l", "d", "e", "r", " ", "h", "a", "s", " ", "n", "o", " ",
      "b", "u", "i", "l", "d", "s">>
DisconnectedUnstableText ==
    <<"D", "i", "s", "c", "o", "n", "n", "e", "c", "t", "e", "d", " ",
      "u", "n", "s", "t", "a", "b", "l", "e", " ", "b", "u", "i", "l", "d", "e", "r">>
DisconnectedText == <<"D", "i", "s", "c", "o", "n", "n", "e", "c", "t", "e", "d", " ">>
StableBuilderText ==
    <<" ", "s", "t", "a", "b", "l", "e", " ", "b", "u", "i", "l", "d", "e", "r">>
RecentBuildText ==
    <<" ", "(", "w", "i", "t", "h", " ", "r", "e", "c", "e", "n", "t", " ",
      "b", "u", "i", "l", "d", ")">>
NoProblemText ==
    <<"N", "o", " ", "p", "r", "o", "b", "l", "e", "m", " ",
      "d", "e", "t", "e", "c", "t", "e", "d">>

\* BuildFailure.get_severity_and_description
FailureSeverityAndDescription(tags) ==
    IF ~IsStable(tags)
    THEN [severity |-> unstable_builder_failure, description |-> UnstableFailedText]
    ELSE [severity |-> IF TierIsReleaseBlocking(TierTagOf(tags))
                       THEN release_blocking_failure
                       ELSE nonblocking_failure,
          description |-> Title(TierTagOf(tags)) \o StableFailedText]

\* BuilderDisconnected.get_severity_and_description, lines 470-478
DisconnectedBase(tags) ==
    IF ~IsStable(tags)
    THEN [severity |-> disconnected_unstable_builder,
          description |-> DisconnectedUnstableText]
    ELSE [severity |-> IF TierIsReleaseBlocking(TierTagOf(tags))
                       THEN disconnected_blocking_builder
                       ELSE disconnected_stable_builder,
          description |-> DisconnectedText \o Title(TierTagOf(tags)) \o StableBuilderText]

\* Build.age is None without started_at; "build.age and build.age < 6 hours":
\* a zero timedelta is falsy
HasRecentAge(build, now) ==
    /\ build.started_at # 0
    /\ now - build.started_at # 0
    /\ now - build.started_at < RECENT_BUILD_AGE

\* lines 482-485: two ifs in a row, not if / elif
DemoteSeverity(severity) ==
    LET s1 == IF severity >= BLOCKING THEN CONCERNING ELSE severity
    IN  IF s1 >= CONCERNING THEN TRIVIAL ELSE s1

\* BuilderDisconnected.get_severity_and_description, lines 479-487: only the
\* first interesting build is looked at (the loop breaks)
DisconnectedSeverityAndDescription(tags, builds, now) ==
    LET base == DisconnectedBase(tags)
        ib == InterestingBuilds(builds)
    IN  IF ib # <<>> /\ HasRecentAge(builds[ib[1]], now)
        THEN [severity |-> DemoteSeverity(base.severity),
              description |-> base.description \o RecentBuildText]
        ELSE base

SeverityAndDescription(p, tags, builds, now) ==
    IF p.kind = "BuildFailure" THEN FailureSeverityAndDescription(tags)
    ELSE IF p.kind = "BuilderDisconnected"
    THEN DisconnectedSeverityAndDescription(tags, builds, now)
    ELSE IF p.kind = "BuildWarning"
    THEN [severity |-> build_warnings, description |-> WarningsText]
    ELSE IF p.kind = "NoBuilds"
    THEN [severity |-> no_builds_yet, description |-> NoBuildsText]
    ELSE [severity |-> NO_PROBLEM, description |-> NoProblemText]

\* Problem.__lt__ on the (-severity, description) pairs
SevDescLess(a, b) ==
    \/ 0 - a.severity < 0 - b.severity
    \/ a.severity = b.severity /\ StrLess(a.description, b.description)

(***************************************************************************)
(* The entity tree.  st holds one BBState with every object below it; each  *)
(* cached_property is a field [set, val].  A property read is an operator   *)
(* from the tree to [st, val, exc]: the tree after the read (caches filled, *)
(* registries grown, upstream calls counted), the value, and the exception  *)
(* raised ("none" when it returns).                                        *)
(***************************************************************************)
\* the value of a singleton: Only({e(x) : x \in {v}}) computes v once and then e
Only(S) == CHOOSE x \in S : TRUE

Unset(v) == [set |-> FALSE, val |-> v]

Cached(v) == [set |-> TRUE, val |-> v]

Ret(s, v) == [st |-> s, val |-> v, exc |-> "none"]

Raise(s, e) == [st |-> s, val |-> <<>>, exc |-> e]

UpstreamBuilderIds == {builderInfos[k].builderid : k \in 1..Len(builderInfos)}

\* a Builder before any property is read
EmptyBuilder ==
    [builds |-> Unset(<<>>), branch |-> Unset(<<>>), tier |-> Unset(<<>>),
     connected_workers |-> Unset(<<>>), problems |-> Unset(<<>>)]

\* a Branch before any property is read
EmptyBranch == [problems |-> Unset(<<>>), featured_problem |-> Unset(NoProblem)]

\* BBState.__init__: empty registries, nothing cached; calls counts the dataGet
\* calls of this refresh
EmptyState ==
    [workers |-> Unset(<<>>),
     builders |-> Unset(<<>>),
     branches |-> Unset(<<>>),
     branch_reg |-> <<>>,        \* the keys of _branches, in insertion order
     Br |-> <<>>,                \* the Branch objects, in the same order
     tier_reg |-> <<>>,          \* the keys of _tiers, in insertion order
     B |-> [bid \in UpstreamBuilderIds |-> EmptyBuilder],
     calls |-> [workers |-> 0, builders |-> 0,
                builds |-> [bid \in UpstreamBuilderIds |-> 0]]]

\* BBState.workers
State_workers(s) ==
    IF s.workers.set THEN Ret(s, s.workers.val)
    ELSE Ret([s EXCEPT !.workers = Cached(workers), !.calls.workers = @ + 1], workers)

\* BBState.builders
State_builders(s) ==
    IF s.builders.set THEN Ret(s, s.builders.val)
    ELSE LET w == State_workers(s)
             active == ActiveBuilderIds(w.val)
             infos == SelectSeq(builderInfos, LAMBDA i : i.builderid \in active)
         IN  Ret([w.st EXCEPT !.builders = Cached(infos), !.calls.builders = @ + 1], infos)

\* Builder.__getitem__: the info the Builder wraps
InfoOf(s, bid) ==
    LET k == CHOOSE k \in 1..Len(s.builders.val) : s.builders.val[k].builderid = bid
    IN  s.builders.val[k]

BuilderIds(s) == {s.builders.val[k].builderid : k \in 1..Len(s.builders.val)}

\* Builder.builds
Builder_builds(s, bid) ==
    IF s.B[bid].builds.set THEN Ret(s, s.B[bid].builds.val)
    ELSE LET v == DataGetBuilds(bid)
         IN  Ret([s EXCEPT !.B[bid].builds = Cached(v), !.calls.builds[bid] = @ + 1], v)

\* BBState.get_branch
State_get_branch(s, tags) ==
    LET tag == BranchTagOf(tags)
    IN  IF InSeq(s.branch_reg, tag) THEN Ret(s, tag)
        ELSE Ret([s EXCEPT !.branch_reg = Append(@, tag), !.Br = Append(@, EmptyBranch)], tag)

\* BBState.get_tier
State_get_tier(s, tags) ==
    LET tag == TierTagOf(tags)
    IN  IF InSeq(s.tier_reg, tag) THEN Ret(s, tag)
        ELSE Ret([s EXCEPT !.tier_reg = Append(@, tag)], tag)

\* Builder.branch
Builder_branch(s, bid) ==
    IF s.B[bid].branch.set THEN Ret(s, s.B[bid].branch.val)
    ELSE LET r == State_get_branch(s, InfoOf(s, bid).tags)
         IN  Ret([r.st EXCEPT !.B[bid].branch = Cached(r.val)], r.val)

\* Builder.tier
Builder_tier(s, bid) ==
    IF s.B[bid].tier.set THEN Ret(s, s.B[bid].tier.val)
    ELSE LET r == State_get_tier(s, InfoOf(s, bid).tags)
         IN  Ret([r.st EXCEPT !.B[bid].tier = Cached(r.val)], r.val)

\* Builder.connected_workers
Builder_connected_workers(s, bid) ==
    IF s.B[bid].connected_workers.set THEN Ret(s, s.B[bid].connected_workers.val)
    ELSE LET w == State_workers(s)
             found == ConnectedWorkersGen(w.val, bid)
         IN  IF SortWorkersRaises(found) THEN Raise(w.st, "TypeError")
             ELSE Ret([w.st EXCEPT !.B[bid].connected_workers = Cached(found)], found)

\* BBState.now; the wall clock does not move during one refresh in this model
State_now == wallNow

\* Problem.severity / Problem.description of a problem of the tree
ProblemSevDesc(s, p) ==
    IF p.kind = "NoProblem"
    THEN [severity |-> NO_PROBLEM, description |-> NoProblemText]
    ELSE SeverityAndDescription(p, InfoOf(s, p.builder).tags,
                                s.B[p.builder].builds.val, State_now)

SeverityOf(s, p) == ProblemSevDesc(s, p).severity

\* Problem.__lt__
ProblemLt(s, p, q) == SevDescLess(ProblemSevDesc(s, p), ProblemSevDesc(s, q))

\* the first read of a problem's severity: BuildFailure and BuilderDisconnected
\* read builder.tier when the builder is stable, which registers the Tier
ForceSeverity(s, p) ==
    IF p.kind \in {"BuildFailure", "BuilderDisconnected"} /\ IsStable(InfoOf(s, p.builder).tags)
    THEN Builder_tier(s, p.builder).st
    ELSE s

RECURSIVE ForceAll(_, _)
ForceAll(s, ps) ==
    IF ps = <<>> THEN s
    ELSE Only({ForceAll(next, Tail(ps)) : next \in {ForceSeverity(s, Head(ps))}})

RECURSIVE InsertProblem(_, _, _)
InsertProblem(s, sorted, x) ==
    IF sorted = <<>> THEN <<x>>
    ELSE IF ProblemLt(s, x, Head(sorted)) THEN <<x>> \o sorted
    ELSE <<Head(sorted)>> \o InsertProblem(s, Tail(sorted), x)

RECURSIVE InsertionSortProblems(_, _)
InsertionSortProblems(s, ps) ==
    IF ps = <<>> THEN <<>>
    ELSE Only({InsertProblem(s, front, ps[Len(ps)]) :
               front \in {InsertionSortProblems(s, SubSeq(ps, 1, Len(ps) - 1))}})

\* sorted(problems) of cached_sorted_property: a stable sort by Problem.__lt__.
\* With two or more problems every one is compared, the second first, so each
\* severity is read (and the tiers registered) in that order.
SortProblems(s, ps) ==
    Only({[st |-> forced, val |-> InsertionSortProblems(forced, ps)] :
          forced \in {IF Len(ps) < 2 THEN s
                      ELSE ForceAll(s, <<ps[2], ps[1]>> \o SubSeq(ps, 3, Len(ps)))}})

\* Builder.problems
Builder_problems(s, bid) ==
    IF s.B[bid].problems.set THEN Ret(s, s.B[bid].problems.val)
    ELSE Only({
        Only({
            IF gen.done
            THEN Ret([b.st EXCEPT !.B[bid].problems = Cached(gen.val)], gen.val)
            ELSE Only({
                IF c.exc # "none" THEN Raise(c.st, c.exc)
                ELSE Only({
                    Ret([srt.st EXCEPT !.B[bid].problems = Cached(srt.val)], srt.val) :
                    srt \in {SortProblems(c.st, gen.val \o DisconnectedGen(bid, c.val))}}) :
                c \in {Builder_connected_workers(b.st, bid)}}) :
            gen \in {BuildProblemsGen(bid, b.val)}}) :
        b \in {Builder_builds(s, bid)}})

\* the loop of Branch.problems over self._root.builders, from builder j on
RECURSIVE CollectBranchProblems(_, _, _, _)
CollectBranchProblems(s, tag, j, acc) ==
    IF j > Len(s.builders.val) THEN Ret(s, acc)
    ELSE LET bid == s.builders.val[j].builderid
         IN  Only({
                 IF BranchEq(br.val, tag)
                 THEN Only({
                          IF pr.exc # "none" THEN Raise(pr.st, pr.exc)
                          ELSE Only({CollectBranchProblems(pr.st, tag, j + 1, more) :
                                     more \in {acc \o pr.val}}) :
                          pr \in {Builder_problems(br.st, bid)}})
                 ELSE CollectBranchProblems(br.st, tag, j + 1, acc) :
                 br \in {Builder_branch(s, bid)}})

\* Branch.problems of the k-th registered Branch
Branch_problems(s, k) ==
    IF s.Br[k].problems.set THEN Ret(s, s.Br[k].problems.val)
    ELSE Only({
             IF c.exc # "none" THEN Raise(c.st, c.exc)
             ELSE Only({Ret([srt.st EXCEPT !.Br[k].problems = Cached(srt.val)], srt.val) :
                        srt \in {SortProblems(c.st, c.val)}}) :
             c \in {CollectBranchProblems(s, s.branch_reg[k], 1, <<>>)}})

\* Branch.featured_problem of the k-th registered Branch
Branch_featured_problem(s, k) ==
    IF s.Br[k].featured_problem.set THEN Ret(s, s.Br[k].featured_problem.val)
    ELSE Only({
             IF r.exc # "none" THEN Raise(r.st, r.exc)
             ELSE LET v == IF r.val = <<>> THEN NoProblem ELSE r.val[1]
                  IN  Ret([r.st EXCEPT !.Br[k].featured_problem = Cached(v)], v) :
             r \in {Branch_problems(s, k)}})

\* [b.branch for b in self.builders], from builder j on
RECURSIVE FillBranches(_, _)
FillBranches(s, j) ==
    IF j > Len(s.builders.val) THEN s
    ELSE Only({FillBranches(next, j + 1) :
               next \in {Builder_branch(s, s.builders.val[j].builderid).st}})

\* BBState.branches
State_branches(s) ==
    IF s.branches.set THEN Ret(s, s.branches.val)
    ELSE LET filled == FillBranches(s, 1)
             sorted == SortBranchesDesc(filled.branch_reg)
         IN  Ret([filled EXCEPT !.branches = Cached(sorted)], sorted)

(***************************************************************************)
(* Operations on the tree: get_release_status builds it, the template then  *)
(* reads properties of it in an order this module does not fix.            *)
(***************************************************************************)
\* ReleaseStatusApp.get_release_status up to render_template: a new BBState, one
\* dataGet("/workers") of its own (line 546), then state.builders
GetReleaseStatus ==
    /\ phase = "idle"
    /\ st' = State_builders([EmptyState EXCEPT !.calls.workers = @ + 1]).st
    /\ phase' = "rendering"
    /\ raised' = "none"
    /\ UNCHANGED <<workers, builderInfos, history, wallNow>>
    /\ UNCHANGED cacheVars

\* one property read by the template: the tree and the exception it leaves
Read(r) ==
    /\ phase = "rendering"
    /\ \E done \in {r} :
        /\ st' = done.st
        /\ raised' = done.exc
    /\ UNCHANGED <<workers, builderInfos, history, wallNow, phase>>
    /\ UNCHANGED cacheVars

ReadBuilderBranch(bid) == bid \in BuilderIds(st) /\ Read(Builder_branch(st, bid))

ReadBuilderTier(bid) == bid \in BuilderIds(st) /\ Read(Builder_tier(st, bid))

ReadBuilderProblems(bid) == bid \in BuilderIds(st) /\ Read(Builder_problems(st, bid))

ReadBranches == Read(State_branches(st))

ReadBranchProblems(k) == k \in 1..Len(st.branch_reg) /\ Read(Branch_problems(st, k))

ReadFeaturedProblem(k) == k \in 1..Len(st.branch_reg) /\ Read(Branch_featured_problem(st, k))

\* the response is rendered; the tree is dropped ("for a fresh view, discard all
\* these objects and build them again")
FinishRender ==
    /\ phase = "rendering"
    /\ phase' = "idle"
    /\ st' = EmptyState
    /\ raised' = "none"
    /\ UNCHANGED <<workers, builderInfos, history, wallNow>>
    /\ UNCHANGED cacheVars

(***************************************************************************)
(* Inputs: the upstream data the specifications start from                 *)
(***************************************************************************)
MaxBuilds == 4       \* builds in a builder's history
MaxWorkers == 2      \* workers upstream

SeqsUpTo(S, n) == UNION {[1..k -> S] : k \in 0..n}

Tag312 == <<"3", ".", "1", "2">>
Tag39 == <<"3", ".", "9">>
Tag3x == <<"3", ".", "x">>
Tag3y == <<"3", ".", "y">>
Tag3012 == <<"3", ".", "0", "1", "2">>
TagTier1 == <<"t", "i", "e", "r", "-", "1">>
TagTier2 == <<"t", "i", "e", "r", "-", "2">>
TagTier3 == <<"t", "i", "e", "r", "-", "3">>
TagTier98 == <<"t", "i", "e", "r", "-", "9", "8">>
TagTier99 == <<"t", "i", "e", "r", "-", "9", "9">>
TagTier100 == <<"t", "i", "e", "r", "-", "1", "0", "0">>
TagTierX == <<"t", "i", "e", "r", "-", "x">>

WallClock == 1000000                 \* the wall clock of the refresh, in seconds
OldStart == WallClock - 7 * 3600     \* a start time that is not recent

SKIPPED == FAILED_BUILD_STATUS + 1   \* a result code that is not interesting
Results == {SUCCESS_BUILD_STATUS, WARNING_BUILD_STATUS, FAILED_BUILD_STATUS, SKIPPED}

FinishedBuild(result, start) == [results |-> result, started_at |-> start, complete |-> TRUE]

\* a build still running: no result yet
RunningBuild == [results |-> 0 - 1, started_at |-> WallClock - 60, complete |-> FALSE]

\* ReleaseStatusApp.__init__: self.cache = None
EmptySlot == [set |-> FALSE, result |-> 0, deadline |-> 0]

\* no request has completed yet
NoRequest ==
    [kind |-> "none", arg |-> "", slotBefore |-> EmptySlot, checkedAt |-> 0,
     recomputesBefore |-> 0, upstreamBefore |-> 0, returned |-> 0,
     slotAfter |-> EmptySlot, finishedAt |-> 0, recomputed |-> 0, called |-> 0,
     prevKind |-> "none", prevArg |-> ""]

\* the cache part at rest, serving requests on the given threads
CacheInitWith(threads) ==
    /\ cache = EmptySlot
    /\ mono = 0
    /\ pc = [t \in threads |-> "idle"]
    /\ req = [t \in threads |-> NoRequest]
    /\ last = NoRequest
    /\ recomputes = 0
    /\ upstream = 0
    /\ ticks = 0

CacheInit == CacheInitWith({})

TreeInit ==
    /\ wallNow = WallClock
    /\ phase = "idle"
    /\ st = EmptyState
    /\ raised = "none"

\* One builder (id 1); every history of up to MaxBuilds finished builds, with or
\* without a running build in front; one to MaxWorkers workers, each connected
\* or not, configured on builder 1 or on another builder.
ProblemsWorkerChoices ==
    {[connected_to |-> 1, configured_on |-> <<1>>],
     [connected_to |-> 0, configured_on |-> <<1>>],
     [connected_to |-> 1, configured_on |-> <<2>>]}

ProblemsHistories ==
    LET finished == {[k \in DOMAIN rs |-> FinishedBuild(rs[k], OldStart)] :
                        rs \in SeqsUpTo(Results, MaxBuilds)}
    IN  finished \cup {<<RunningBuild>> \o h : h \in finished}

InitProblems ==
    /\ builderInfos = <<[builderid |-> 1, tags |-> <<StableTag, TagTier1, Tag312>>]>>
    /\ workers \in {ws \in SeqsUpTo(ProblemsWorkerChoices, MaxWorkers) : Len(ws) >= 1}
    /\ history \in {[bid \in {1} |-> h] : h \in ProblemsHistories}
    /\ TreeInit
    /\ CacheInit

NextProblems ==
    \/ GetReleaseStatus
    \/ \E bid \in UpstreamBuilderIds : ReadBuilderProblems(bid)
    \/ FinishRender

SpecProblems == InitProblems /\ [][NextProblems]_vars

(***************************************************************************)
(* Properties of Builder.problems                                          *)
(***************************************************************************)
\* the builders whose problems have been computed in the current tree
Classified == {bid \in BuilderIds(st) : st.B[bid].problems.set}

ProblemsOf(bid) == st.B[bid].problems.val

BuildsOf(bid) == st.B[bid].builds.val

InterestingOf(bid) == InterestingBuilds(BuildsOf(bid))

ResultAt(bid, k) == BuildsOf(bid)[InterestingOf(bid)[k]].results

KindCount(ps, kind) == Cardinality({i \in 1..Len(ps) : ps[i].kind = kind})

LatestFailed(bid) == InterestingOf(bid) # <<>> /\ ResultAt(bid, 1) = FAILED_BUILD_STATUS

\* some connected worker lists the builder in configured_on
ServedByConnectedWorker(bid) ==
    \E k \in 1..Len(workers) :
        workers[k].connected_to > 0 /\ InSeq(workers[k].configured_on, bid)

\* C1: a builder whose latest interesting build failed has exactly one
\* BuildFailure among its problems, and its latest build is that build,
\* whatever the older builds are.
C1_LatestFailureIsReported ==
    \A bid \in Classified :
        LatestFailed(bid) =>
            /\ KindCount(ProblemsOf(bid), "BuildFailure") = 1
            /\ \A i \in 1..Len(ProblemsOf(bid)) :
                   ProblemsOf(bid)[i].kind = "BuildFailure" =>
                       ProblemsOf(bid)[i].latest_build = InterestingOf(bid)[1]

\* the length of the unbroken run of failures that starts at the latest build
FailingRunLength(bid) ==
    CHOOSE n \in 0..Len(InterestingOf(bid)) :
        /\ \A k \in 1..n : ResultAt(bid, k) = FAILED_BUILD_STATUS
        /\ n = Len(InterestingOf(bid)) \/ ResultAt(bid, n + 1) # FAILED_BUILD_STATUS

\* C2, as claimed: the breaking build of an emitted BuildFailure is the oldest
\* build of the unbroken failing run that starts at the latest build, and is
\* given exactly when that run has more than one build.
C2_BreakingIsOldestOfUnbrokenRun ==
    \A bid \in Classified :
        \A i \in 1..Len(ProblemsOf(bid)) :
            ProblemsOf(bid)[i].kind = "BuildFailure" =>
                ProblemsOf(bid)[i].first_failing_build =
                    IF FailingRunLength(bid) > 1
                    THEN InterestingOf(bid)[FailingRunLength(bid)]
                    ELSE NoBuild

SuccessPositions(bid) ==
    {k \in 1..Len(InterestingOf(bid)) : ResultAt(bid, k) = SUCCESS_BUILD_STATUS}

Minimum(S) == CHOOSE x \in S : \A y \in S : x <= y

Maximum(S) == CHOOSE x \in S : \A y \in S : x >= y

\* the oldest failure among the interesting builds newer than the newest success
OldestFailureSinceSuccess(bid) ==
    Maximum({k \in 1..(Minimum(SuccessPositions(bid)) - 1) :
                ResultAt(bid, k) = FAILED_BUILD_STATUS})

\* C2, amended: the breaking build of an emitted BuildFailure is given exactly
\* when the history holds a success; it is then the oldest failure newer than
\* the newest success (warnings in between do not end the scan) and is older
\* than the latest build.  Without a success there is no breaking build.
C2_BreakingIsOldestFailureSinceSuccess ==
    \A bid \in Classified :
        \A i \in 1..Len(ProblemsOf(bid)) :
            ProblemsOf(bid)[i].kind = "BuildFailure" =>
                IF SuccessPositions(bid) = {}
                THEN ProblemsOf(bid)[i].first_failing_build = NoBuild
                ELSE /\ OldestFailureSinceSuccess(bid) > 1
                     /\ ProblemsOf(bid)[i].first_failing_build =
                            InterestingOf(bid)[OldestFailureSinceSuccess(bid)]

\* the history [F, F, S, S] has been classified: BuildFailure(latest=F0, breaking=F1)
C2_Witness ==
    \E bid \in Classified :
        /\ [k \in 1..Len(BuildsOf(bid)) |-> BuildsOf(bid)[k].results] =
               <<FAILED_BUILD_STATUS, FAILED_BUILD_STATUS,
                 SUCCESS_BUILD_STATUS, SUCCESS_BUILD_STATUS>>
        /\ \E i \in 1..Len(ProblemsOf(bid)) :
               /\ ProblemsOf(bid)[i].kind = "BuildFailure"
               /\ ProblemsOf(bid)[i].latest_build = 1
               /\ ProblemsOf(bid)[i].first_failing_build = 2

\* C3, as claimed: whatever the build history, a builder has a
\* BuilderDisconnected problem exactly when no connected worker serves it.
C3_DisconnectionIndependentOfHistory ==
    \A bid \in Classified :
        KindCount(ProblemsOf(bid), "BuilderDisconnected") =
            IF ServedByConnectedWorker(bid) THEN 0 ELSE 1

\* C3, amended: a builder with no interesting build has the single problem
\* NoBuilds, disconnected or not; a builder with an interesting build has a
\* BuilderDisconnected problem exactly when no connected worker serves it,
\* next to the warning or failure of its latest build.
C3_DisconnectionAfterNoBuilds ==
    \A bid \in Classified :
        IF InterestingOf(bid) = <<>>
        THEN ProblemsOf(bid) = <<MkProblem("NoBuilds", bid, NoBuild, NoBuild)>>
        ELSE /\ KindCount(ProblemsOf(bid), "BuilderDisconnected") =
                    IF ServedByConnectedWorker(bid) THEN 0 ELSE 1
             /\ KindCount(ProblemsOf(bid), "NoBuilds") = 0
             /\ KindCount(ProblemsOf(bid), "BuildWarning") =
                    IF ResultAt(bid, 1) = WARNING_BUILD_STATUS THEN 1 ELSE 0

\* a disconnected builder whose latest build failed carries both problems, and
\* a disconnected builder without builds has been classified too
C3_Witness ==
    \E bid \in Classified :
        /\ ~ServedByConnectedWorker(bid)
        /\ LatestFailed(bid)
        /\ KindCount(ProblemsOf(bid), "BuildFailure") = 1
        /\ KindCount(ProblemsOf(bid), "BuilderDisconnected") = 1

(***************************************************************************)
(* Severity of BuilderDisconnected                                         *)
(***************************************************************************)
\* One builder with every combination of stable and tier tags; one worker,
\* connected or not; a history whose first build has every result and a start
\* time around the six-hour line (0 stands for no started_at), alone or behind a
\* recent skipped build or in front of an old failure.
SeverityTagLists ==
    {<<>>, <<TagTier1>>, <<StableTag>>, <<StableTag, TagTier1>>, <<StableTag, TagTier2>>,
     <<StableTag, TagTier3>>, <<TagTierX, StableTag>>}

SeverityStarts ==
    {0, WallClock, WallClock - 1, WallClock - RECENT_BUILD_AGE + 1,
     WallClock - RECENT_BUILD_AGE, WallClock - RECENT_BUILD_AGE - 1}

SeverityHistories ==
    LET firsts == {FinishedBuild(r, t) : r \in Results, t \in SeverityStarts}
    IN  {<<>>} \cup {<<b>> : b \in firsts}
               \cup {<<FinishedBuild(SKIPPED, WallClock - 1), b>> : b \in firsts}
               \cup {<<b, FinishedBuild(FAILED_BUILD_STATUS, WallClock - 1)>> : b \in firsts}

InitSeverity ==
    /\ builderInfos \in {<<[builderid |-> 1, tags |-> t]>> : t \in SeverityTagLists}
    /\ workers \in {<<[connected_to |-> c, configured_on |-> <<1>>]>> : c \in {0, 1}}
    /\ history \in {[bid \in {1} |-> h] : h \in SeverityHistories}
    /\ TreeInit
    /\ CacheInit

NextSeverity ==
    \/ GetReleaseStatus
    \/ \E bid \in UpstreamBuilderIds : ReadBuilderProblems(bid)
    \/ \E bid \in UpstreamBuilderIds : ReadBuilderTier(bid)
    \/ FinishRender

SpecSeverity == InitSeverity /\ [][NextSeverity]_vars

\* the four severity bands: none < trivial < concerning < blocking
Band(severity) ==
    IF severity >= BLOCKING THEN 3
    ELSE IF severity >= CONCERNING THEN 2
    ELSE IF severity >= TRIVIAL THEN 1
    ELSE 0

\* the start time of the builder's most recent interesting build is known and
\* lies in the given range of ages
LatestStartedWithin(bid, minAge, maxAge) ==
    /\ InterestingOf(bid) # <<>>
    /\ BuildsOf(bid)[InterestingOf(bid)[1]].started_at # 0
    /\ State_now - BuildsOf(bid)[InterestingOf(bid)[1]].started_at >= minAge
    /\ State_now - BuildsOf(bid)[InterestingOf(bid)[1]].started_at <= maxAge

\* C4: the severity of a BuilderDisconnected problem is one band below its base
\* severity when the most recent interesting build started less than six hours
\* before now, and is the base severity when it started six hours and a second
\* or more before now.  (A base severity in the lowest band has no band below
\* it; it is read here as staying in that band.)
C4_DisconnectedDemotedOneBand ==
    \A bid \in Classified :
        \A i \in 1..Len(ProblemsOf(bid)) :
            ProblemsOf(bid)[i].kind = "BuilderDisconnected" =>
                LET base == DisconnectedBase(InfoOf(st, bid).tags).severity
                    severity == SeverityOf(st, ProblemsOf(bid)[i])
                IN  /\ LatestStartedWithin(bid, 1, RECENT_BUILD_AGE - 1) =>
                           Band(severity) = (IF Band(base) > 0 THEN Band(base) - 1 ELSE 0)
                    /\ LatestStartedWithin(bid, RECENT_BUILD_AGE + 1, WallClock) =>
                           severity = base

(***************************************************************************)
(* Order of State.branches                                                 *)
(***************************************************************************)
\* Four builders on one connected worker, each with any of these tag lists (the
\* last one holds two branch tags: the first one counts).
BranchTagLists ==
    {<<>>, <<Tag312>>, <<Tag39>>, <<Tag3x>>, <<Tag3y>>, <<StableTag, Tag39, Tag312>>}

BranchesBuilderIds == 1..4

InitBranches ==
    /\ builderInfos \in {[k \in BranchesBuilderIds |-> [builderid |-> k, tags |-> f[k]]] :
                            f \in [BranchesBuilderIds -> BranchTagLists]}
    /\ workers = <<[connected_to |-> 1, configured_on |-> <<1, 2, 3, 4>>]>>
    /\ history = [bid \in BranchesBuilderIds |-> <<>>]
    /\ TreeInit
    /\ CacheInit

NextBranches ==
    \/ GetReleaseStatus
    \/ \E bid \in UpstreamBuilderIds : ReadBuilderBranch(bid)
    \/ ReadBranches
    \/ FinishRender

SpecBranches == InitBranches /\ [][NextBranches]_vars

\* the suffix after "3." is a decimal number
HasNumericMinor(tag) ==
    /\ StartsWith(tag, BranchPrefix)
    /\ Len(tag) > 2
    /\ \A i \in 3..Len(tag) : IndexOf(DigitChars, tag[i]) > 0

MinorOf(tag) == DigitsValue(SubSeq(tag, 3, Len(tag)))

HasOtherSuffix(tag) == StartsWith(tag, BranchPrefix) /\ ~HasNumericMinor(tag)

\* a comes strictly before b in the order the claim states: numeric minors by
\* descending minor, then non-numeric suffixes, then no-branch
ClaimedBefore(a, b) ==
    \/ HasNumericMinor(a) /\ HasNumericMinor(b) /\ MinorOf(a) > MinorOf(b)
    \/ HasNumericMinor(a) /\ ~HasNumericMinor(b)
    \/ HasOtherSuffix(a) /\ b = NoBranchTag

\* a comes strictly before b in the order of the code: non-numeric suffixes,
\* then numeric minors by descending minor, then no-branch
SortedBefore(a, b) ==
    \/ HasNumericMinor(a) /\ HasNumericMinor(b) /\ MinorOf(a) > MinorOf(b)
    \/ HasOtherSuffix(a) /\ ~HasOtherSuffix(b)
    \/ HasNumericMinor(a) /\ b = NoBranchTag

IsPermutationOf(a, b) ==
    /\ Len(a) = Len(b)
    /\ \A i \in 1..Len(a) : CountIn(a, a[i]) = CountIn(b, a[i])

TierTagLists ==
    {<<>>, <<TagTier1>>, <<TagTier2>>, <<TagTier98>>, <<TagTier99>>, <<TagTier100>>,
     <<TagTierX>>, <<Tag312, TagTier3, TagTier1>>}

TiersBuilderIds == 1..2

InitTiers ==
    /\ builderInfos \in {[k \in TiersBuilderIds |-> [builderid |-> k, tags |-> f[k]]] :
                            f \in [TiersBuilderIds -> TierTagLists]}
    /\ workers = <<[connected_to |-> 1, configured_on |-> <<1, 2>>]>>
    /\ history = [bid \in TiersBuilderIds |-> <<>>]
    /\ TreeInit
    /\ CacheInit

NextTiers ==
    \/ GetReleaseStatus
    \/ \E bid \in UpstreamBuilderIds : ReadBuilderTier(bid)
    \/ FinishRender

SpecTiers == InitTiers /\ [][NextTiers]_vars

\* the tag is "tier-" followed by a decimal number
IsNumberedTier(tag) ==
    /\ StartsWith(tag, TierPrefix)
    /\ Len(tag) > 5
    /\ \A i \in 6..Len(tag) : IndexOf(DigitChars, tag[i]) > 0

\* C6: among the Tier objects of one State, no-tier compares strictly greater
\* than every tier-N: never equal to it, never before it.
C6_NoTierAfterEveryNumberedTier ==
    \A i, j \in 1..Len(st.tier_reg) :
        (st.tier_reg[i] = NoTierTag /\ IsNumberedTier(st.tier_reg[j])) =>
            /\ TierGt(st.tier_reg[i], st.tier_reg[j])
            /\ TierLt(st.tier_reg[j], st.tier_reg[i])
            /\ ~TierEq(st.tier_reg[i], st.tier_reg[j])

(***************************************************************************)
(* Problems of a Branch                                                    *)
(***************************************************************************)
\* Two builders, each on a worker of its own that is connected or not; any of
\* these tag lists; no build, a failed build or a successful build.
BranchProblemsTagLists ==
    {<<>>, <<Tag3x>>, <<Tag3y>>, <<Tag312>>, <<Tag3012>>,
     <<StableTag, TagTier1, Tag3x>>, <<StableTag, TagTier2, Tag3y>>}

BranchProblemsHistories ==
    {<<>>, <<FinishedBuild(FAILED_BUILD_STATUS, OldStart)>>,
     <<FinishedBuild(SUCCESS_BUILD_STATUS, OldStart)>>}

BranchProblemsBuilderIds == 1..2

InitBranchProblems ==
    /\ builderInfos \in {[k \in BranchProblemsBuilderIds |-> [builderid |-> k, tags |-> f[k]]] :
                            f \in [BranchProblemsBuilderIds -> BranchProblemsTagLists]}
    /\ workers \in {[k \in BranchProblemsBuilderIds |->
                        [connected_to |-> c[k], configured_on |-> <<k>>]] :
                            c \in [BranchProblemsBuilderIds -> {0, 1}]}
    /\ history \in [BranchProblemsBuilderIds -> BranchProblemsHistories]
    /\ TreeInit
    /\ CacheInit

NextBranchProblems ==
    \/ GetReleaseStatus
    \/ \E bid \in UpstreamBuilderIds : ReadBuilderBranch(bid)
    \/ \E bid \in UpstreamBuilderIds : ReadBuilderProblems(bid)
    \/ \E k \in 1..Cardinality(UpstreamBuilderIds) : ReadBranchProblems(k)
    \/ \E k \in 1..Cardinality(UpstreamBuilderIds) : ReadFeaturedProblem(k)
    \/ FinishRender

SpecBranchProblems == InitBranchProblems /\ [][NextBranchProblems]_vars

\* the builders whose resolved branch is the Branch with this tag
BuildersOfBranch(tag) == {bid \in BuilderIds(st) : BranchTagOf(InfoOf(st, bid).tags) = tag}

ElementsOf(seq) == {seq[i] : i \in 1..Len(seq)}

\* C10: the problems of a Branch are exactly the problems of the builders
\* resolved to that Branch, sorted by severity descending and description
\* ascending; its featured problem is the first of them, or NoProblem; no
\* problem of a builder of another branch tag is among them.
C10_BranchProblemsAreItsBuilders ==
    \A k \in 1..Len(st.branch_reg) :
        st.Br[k].problems.set =>
            LET ps == st.Br[k].problems.val
                own == BuildersOfBranch(st.branch_reg[k])
            IN  /\ \A i \in 1..Len(ps) : ps[i].builder \in own
                /\ \A bid \in own :
                       st.B[bid].problems.set /\ ElementsOf(ProblemsOf(bid)) \subseteq ElementsOf(ps)
                /\ Len(ps) = Cardinality(ElementsOf(ps))
                /\ \A i, j \in 1..Len(ps) : i < j => ~ProblemLt(st, ps[j], ps[i])
                /\ st.Br[k].featured_problem.set =>
                       st.Br[k].featured_problem.val = (IF ps = <<>> THEN NoProblem ELSE ps[1])

(***************************************************************************)
(* The result cache: ReleaseStatusApp.main                                 *)
(***************************************************************************)
MaxRecomputes == 3     \* get_release_status calls in one run
MaxTicks == 3          \* advances of the monotonic clock in one run
ConcurrentThreads == 2 \* request threads of the concurrent specification

\* the values of the "refresh" query argument tried; "" is its default
RefreshArgs == {"", "Yes", "0"}

\* str.lower() on those values
LowerOf(arg) ==
    IF arg = "Yes" THEN "yes" ELSE arg

\* line 511
ForceRefresh(arg) == LowerOf(arg) \in {"1", "yes", "true"}

\* CacheHit with the deadline itself already expired
CacheHitStrict(slot, force_refresh, now) ==
    slot.set /\ ~force_refresh /\ now < slot.deadline

\* lines 513-515: the slot is served
CacheHit(slot, force_refresh, now) ==
    slot.set /\ ~force_refresh /\ now <= slot.deadline

\* lines 519-520: the entry stored after a recomputation that ended at now
NewEntry(result, now) == [set |-> TRUE, result |-> result, deadline |-> now + CACHE_DURATION]

\* SlotAfterFailure with the slot emptied when get_release_status raises
SlotClearedAfterFailure(slot) == [set |-> FALSE, result |-> 0, deadline |-> 0]

\* get_release_status raises at line 518: lines 519-520 do not run, the slot stays
SlotAfterFailure(slot) == slot

\* the upstream calls get_release_status makes before rendering
CallsOfGetReleaseStatus ==
    LET s == State_builders([EmptyState EXCEPT !.calls.workers = @ + 1]).st
    IN  s.calls.workers + s.calls.builders

\* the record of a request that ends now: what it returned, the slot it leaves,
\* and how many recomputations and upstream calls were started since it arrived.
\* prevKind is how the request before it ended, prevArg that request's refresh
\* argument when it failed.
Completed(r, kind, returned, slotAfter, recomputesAfter, upstreamAfter) ==
    [r EXCEPT !.kind = kind, !.returned = returned, !.slotAfter = slotAfter,
              !.finishedAt = mono,
              !.recomputed = recomputesAfter - r.recomputesBefore,
              !.called = upstreamAfter - r.upstreamBefore,
              !.recomputesBefore = 0, !.upstreamBefore = 0,
              !.prevKind = last.kind,
              !.prevArg = IF last.kind = "failed" THEN last.arg ELSE ""]

\* the locals of a request that arrives now
Arrived(arg) ==
    [NoRequest EXCEPT !.arg = arg, !.slotBefore = cache,
                      !.checkedAt = mono, !.recomputesBefore = recomputes,
                      !.upstreamBefore = upstream]

\* a request arrives and is answered from the slot (lines 511-516)
MainServesCache(t, arg) ==
    /\ pc[t] = "idle"
    /\ CacheHit(cache, ForceRefresh(arg), mono)
    /\ last' = Completed(Arrived(arg), "hit", cache.result, cache, recomputes, upstream)
    /\ UNCHANGED <<cache, mono, pc, req, recomputes, upstream, ticks>>
    /\ UNCHANGED dashVars

\* a request arrives and calls get_release_status (lines 511-518)
MainStartsRecompute(t, arg) ==
    /\ pc[t] = "idle"
    /\ ~CacheHit(cache, ForceRefresh(arg), mono)
    /\ recomputes < MaxRecomputes
    /\ recomputes' = recomputes + 1
    /\ pc' = [pc EXCEPT ![t] = "computing"]
    /\ req' = [req EXCEPT ![t] = [Arrived(arg) EXCEPT !.returned = recomputes + 1]]
    /\ UNCHANGED <<cache, mono, last, upstream, ticks>>
    /\ UNCHANGED dashVars

\* get_release_status returns; the new context is stored and returned (lines 518-521)
MainStoresResult(t) ==
    /\ pc[t] = "computing"
    /\ cache' = NewEntry(req[t].returned, mono)
    /\ upstream' = upstream + CallsOfGetReleaseStatus
    /\ last' = Completed(req[t], "recomputed", req[t].returned, cache', recomputes, upstream')
    /\ pc' = [pc EXCEPT ![t] = "idle"]
    /\ req' = [req EXCEPT ![t] = NoRequest]
    /\ UNCHANGED <<mono, recomputes, ticks>>
    /\ UNCHANGED dashVars

\* the k-th upstream call of get_release_status raises; the exception leaves
\* main() at line 518
MainRecomputeRaises(t, k) ==
    /\ pc[t] = "computing"
    /\ k \in 1..CallsOfGetReleaseStatus
    /\ upstream' = upstream + k
    /\ cache' = SlotAfterFailure(cache)
    /\ last' = Completed(req[t], "failed", 0, cache', recomputes, upstream')
    /\ pc' = [pc EXCEPT ![t] = "idle"]
    /\ req' = [req EXCEPT ![t] = NoRequest]
    /\ UNCHANGED <<mono, recomputes, ticks>>
    /\ UNCHANGED dashVars

\* time.monotonic() moves on
Tick(d) ==
    /\ ticks < MaxTicks
    /\ ticks' = ticks + 1
    /\ mono' = mono + d
    /\ UNCHANGED <<cache, pc, req, last, recomputes, upstream>>
    /\ UNCHANGED dashVars

TickSizes == {1, CACHE_DURATION}

NextCache ==
    \/ \E t \in DOMAIN pc, arg \in RefreshArgs : MainServesCache(t, arg)
    \/ \E t \in DOMAIN pc, arg \in RefreshArgs : MainStartsRecompute(t, arg)
    \/ \E t \in DOMAIN pc : MainStoresResult(t)
    \/ \E t \in DOMAIN pc, k \in 1..3 : MainRecomputeRaises(t, k)
    \/ \E d \in TickSizes : Tick(d)

\* the upstream service seen by the cache specifications: one builder on one
\* connected worker
InitUpstreamSmall ==
    /\ builderInfos = <<[builderid |-> 1, tags |-> <<StableTag, TagTier1, Tag312>>]>>
    /\ workers = <<[connected_to |-> 1, configured_on |-> <<1>>]>>
    /\ history = [bid \in {1} |-> <<FinishedBuild(SUCCESS_BUILD_STATUS, OldStart)>>]
    /\ TreeInit

\* requests handled one after the other
InitSequential == InitUpstreamSmall /\ CacheInitWith({1})

SpecSequential == InitSequential /\ [][NextCache]_vars

\* requests handled by ConcurrentThreads threads at once
InitConcurrent == InitUpstreamSmall /\ CacheInitWith(1..ConcurrentThreads)

\* the concurrent runs draw the refresh argument from absent and "Yes", and the
\* clock either creeps or jumps a whole cache lifetime
ConcurrentArgs == {"", "Yes"}

NextConcurrent ==
    \/ \E t \in DOMAIN pc, arg \in ConcurrentArgs : MainServesCache(t, arg)
    \/ \E t \in DOMAIN pc, arg \in ConcurrentArgs : MainStartsRecompute(t, arg)
    \/ \E t \in DOMAIN pc : MainStoresResult(t)
    \/ \E t \in DOMAIN pc : MainRecomputeRaises(t, 1)
    \/ \E d \in TickSizes : Tick(d)

SpecConcurrent == InitConcurrent /\ [][NextConcurrent]_vars

(***************************************************************************)
(* Properties of the result cache                                          *)
(***************************************************************************)
\* the request carries the refresh flag: "1", "yes" or "true" in any case
CarriesRefresh(arg) == arg \in {"1", "yes", "Yes", "YES", "true", "True", "TRUE"}

\* the stored entry was there and not past its deadline when the last request looked
WasFresh(r) == r.slotBefore.set /\ r.checkedAt <= r.slotBefore.deadline

NobodyComputing == \A t \in DOMAIN pc : pc[t] = "idle"

\* C7: with requests handled one after the other and recomputation succeeding,
\* a request is answered with the stored context, with no recomputation and no
\* upstream call, exactly when the slot is filled, the request carries no
\* refresh flag and the clock is at or before the deadline; any other request
\* recomputes once and leaves (new context, completion time + 360 s) in the slot.
C7_ServedFromCacheIffFresh ==
    /\ last.kind \in {"hit", "recomputed"} =>
           /\ last.kind = "hit" <=> (WasFresh(last) /\ ~CarriesRefresh(last.arg))
           /\ last.kind = "hit" =>
                  /\ last.returned = last.slotBefore.result
                  /\ last.recomputed = 0
                  /\ last.called = 0
                  /\ last.slotAfter = last.slotBefore
           /\ last.kind = "recomputed" =>
                  /\ last.recomputed = 1
                  /\ last.called > 0
                  /\ last.slotBefore.set => last.returned # last.slotBefore.result
                  /\ last.slotAfter = [set |-> TRUE, result |-> last.returned,
                                       deadline |-> last.finishedAt + 360]
    /\ (NobodyComputing /\ last.kind # "none") => cache = last.slotAfter

\* a request arriving exactly at the deadline was served from the slot, after
\* which a request past the deadline recomputed
C7_Witness ==
    /\ last.kind = "recomputed"
    /\ last.prevKind = "hit"
    /\ last.slotBefore.set
    /\ ~CarriesRefresh(last.arg)
    /\ last.checkedAt = last.slotBefore.deadline + 1

\* C8, as claimed: a failed recomputation leaves the slot as it was, and the
\* request after it is never answered from the slot, also when the failed
\* request was a forced refresh of an entry still within its window.
C8_RetryAfterEveryFailure ==
    /\ last.kind = "failed" => last.slotAfter = last.slotBefore
    /\ last.prevKind = "failed" => last.kind # "hit"

\* C8, amended: a failed recomputation leaves the slot as it was; the request
\* after it recomputes again when the slot is empty or past its deadline or the
\* request carries the refresh flag, and is answered from the slot otherwise,
\* which happens only after a failed forced refresh of an entry still within
\* its window.
C8_RetryAfterFailureUnlessStillFresh ==
    /\ last.kind = "failed" =>
           /\ last.slotAfter = last.slotBefore
           /\ NobodyComputing => cache = last.slotBefore
    /\ last.prevKind = "failed" =>
           /\ (~WasFresh(last) \/ CarriesRefresh(last.arg)) => last.kind # "hit"
           /\ last.kind = "hit" => (WasFresh(last) /\ CarriesRefresh(last.prevArg))

\* a recomputation failed with a stale entry in the slot, and the next request
\* recomputed
C8_Witness ==
    /\ last.prevKind = "failed"
    /\ last.kind = "recomputed"
    /\ last.slotBefore.set
    /\ ~CarriesRefresh(last.arg)

\* C9: at most one call of get_release_status is in flight at any time.
C9_AtMostOneRecomputation ==
    Cardinality({t \in DOMAIN pc : pc[t] = "computing"}) <= 1

(***************************************************************************)
(* Upstream calls of one refresh                                           *)
(***************************************************************************)
\* a refresh is under way: get_release_status has built the tree and the
\* template is reading it
Refreshing == phase = "rendering"

\* dataGet("/workers") calls of the refresh so far
WorkerListCalls == st.calls.workers

\* dataGet("/builders") calls of the refresh so far
BuilderListCalls == st.calls.builders

\* dataGet(("builders", bid, "builds")) calls of the refresh so far
BuildHistoryCalls(bid) == st.calls.builds[bid]

\* the builder list is fetched once and no builder's history more than once,
\* whatever the template has read
BuilderDataFetchedOnce ==
    Refreshing => /\ BuilderListCalls = 1
                  /\ \A bid \in UpstreamBuilderIds : BuildHistoryCalls(bid) <= 1

\* C11: during one refresh, whatever properties have been read and in whatever
\* order, the worker list has been fetched exactly once, the builder list
\* exactly once, and no builder's build history more than once.
C11_EachUpstreamQueryOnce ==
    Refreshing => /\ WorkerListCalls = 1
                  /\ BuilderListCalls = 1
                  /\ \A bid \in UpstreamBuilderIds : BuildHistoryCalls(bid) <= 1

====
